---- MODULE Spec2Model ----
(***************************************************************************)
(* Model of sktime/transformations/compose/_column.py:                     *)
(*   ColumnwiseTransformer      (the single-transformer column broadcaster)*)
(*   ColumnEnsembleTransformer  (the column-group router)                  *)
(*   _check_columns             (the validation helper)                    *)
(*                                                                         *)
(* One estimator object is constructed (cls says of which class) and then  *)
(* its methods are called in any order with any input.  A call is one      *)
(* atomic step: the code is synchronous and single-threaded.               *)
(*                                                                         *)
(* Tables are single-row pandas frames: an ordered list of distinct column *)
(* labels, a row index and one value per column.  Estimator instances live *)
(* in a heap keyed by object identity, so aliasing between the template    *)
(* and its clones is observable.                                           *)
(***************************************************************************)
EXTENDS Integers, Sequences, FiniteSets, TLC

\* ---------------------------------------------------------------- bounds
\* longest column list of a table and longest explicit `columns` argument
MaxCols == 2
\* largest cell value, and largest value of the auxiliary argument y
MaxValue == 1

\* ------------------------------------------------------------ data domain
\* column labels that are Python strings
StrNames == {"a", "b"}
\* a column label that is not a string (pandas allows integer labels)
NonStrNames == {"k0"}
ColNames == StrNames \cup NonStrNames
\* cell values and the values of the auxiliary argument y
Values == 0..MaxValue
Modulus == Cardinality(Values)
RowIndexes == {"r0", "r1"}

Range(s) == {s[i] : i \in DOMAIN s}
SeqsUpTo(S, n) == UNION {[1..k -> S] : k \in 0..n}
Distinct(s) == \A i, j \in DOMAIN s : i # j => s[i] # s[j]

\* the value standing for "no table" (None, or nothing returned)
NoData == [kind |-> "none", columns |-> <<>>, index |-> "r0",
           data |-> [c \in {} |-> 0]]
\* the column lists of the input tables: distinct string labels in any order,
\* and two tables with a non-string label
ColumnLists ==
    {s \in SeqsUpTo(StrNames, MaxCols) : s # <<>> /\ Distinct(s)}
        \cup {<<n>> : n \in NonStrNames}
        \cup {<<"a", n>> : n \in NonStrNames}
\* the value standing for the estimator itself, where a method returns self
SelfRef == [kind |-> "self", columns |-> <<>>, index |-> "r0",
            data |-> [c \in {} |-> 0]]
\* every pd.DataFrame within the bounds
Frames ==
    {[kind |-> "frame", columns |-> t[1], index |-> t[2], data |-> t[3]] :
        t \in {t \in ColumnLists \X RowIndexes
                       \X UNION {[S -> Values] : S \in SUBSET ColNames} :
                  DOMAIN t[3] = Range(t[1])}}
\* every named pd.Series within the bounds
SeriesInputs ==
    {[kind |-> "series", columns |-> <<n>>, index |-> ix, data |-> [c \in {n} |-> v]] :
        n \in ColNames, ix \in RowIndexes, v \in Values}
\* the `columns` constructor argument: None, a list, or an iterable that is
\* not a list (a tuple), each over string and non-string elements
NoneColumns == [isNone |-> TRUE, isList |-> FALSE, elems |-> <<>>]
ColumnsParams ==
    {NoneColumns} \cup
    {[isNone |-> FALSE, isList |-> l, elems |-> e] :
        l \in BOOLEAN,
        e \in SeqsUpTo(StrNames, MaxCols)
                \cup {<<n>> : n \in NonStrNames}
                \cup {<<"a", n>> : n \in NonStrNames}}

\* ------------------------------------------------------------------ state
VARIABLES
    cls,            \* class of the constructed object
    heap,           \* estimator instances by identity: template(s) and clones
    transformer,    \* ColumnwiseTransformer.transformer (identity of the template)
    columns,        \* ColumnwiseTransformer.columns (constructor argument)
    columns_,       \* ColumnwiseTransformer.columns_ (<<>> while the attribute is unset)
    transformers_,  \* ColumnwiseTransformer.transformers_: column label -> clone identity
    fitted,         \* a _fit of the object has returned normally
    transformers,   \* ColumnEnsembleTransformer.transformers: the (name, estimator, index) groups
    ensemble_transformers_,  \* ColumnEnsembleTransformer.transformers_: fitted triples
    _Xcolumns,      \* ColumnEnsembleTransformer._Xcolumns
    last,           \* the last call: operation, arguments, outcome
    calls           \* the calls the last operation made on sub-estimators, in order

vars == <<cls, heap, transformer, columns, columns_, transformers_,
          fitted, transformers, ensemble_transformers_, _Xcolumns, last, calls>>

\* what a call leaves alone unless it says otherwise
config == <<cls, transformer, columns, transformers>>
ensemble == <<ensemble_transformers_, _Xcolumns>>

\* ------------------------------------------------- the wrapped estimators
\* The second positional argument of a sub-estimator call: y, or a table.
ArgY(y) == [isData |-> FALSE, y |-> y, X |-> NoData]
ArgData(X) == [isData |-> TRUE, y |-> 0, X |-> X]

RECURSIVE SumOver(_, _)
SumOver(f, S) ==
    IF S = {} THEN 0
    ELSE LET c == CHOOSE c \in S : TRUE IN f[c] + SumOver(f, S \ {c})
ArgDigest(a) == IF a.isData THEN SumOver(a.X.data, DOMAIN a.X.data) ELSE a.y

\* A stand-in univariate transformer with one learned statistic.
EstFit(e, x, a) == [e EXCEPT !.fitted = TRUE, !.state = (x + ArgDigest(a)) % Modulus]
EstTransform(e, x, a) == (x + e.state + e.param + ArgDigest(a)) % Modulus
EstInverse(e, x, a) ==
    (x + 3 * Modulus - e.state - e.param - (ArgDigest(a) % Modulus)) % Modulus
EstUpdate(e, x, a) == [e EXCEPT !.state = (e.state + x + ArgDigest(a) + 1) % Modulus]

\* the identity of a new object: the least one no object of the heap has (the
\* clones of the previous fit stay in the heap until the call returns, so that
\* an identity never names two objects within a call)
FreshId(h) == CHOOSE i \in 0..Cardinality(DOMAIN h) :
                 i \notin DOMAIN h /\ \A j \in 0..(i - 1) : j \in DOMAIN h

\* estimator.clone(): a new unfitted instance with the same parameters
clone(h, src) ==
    LET id == FreshId(h)
    IN  [id |-> id,
         heap |-> [i \in DOMAIN h \cup {id} |->
                     IF i = id
                     THEN [h[src] EXCEPT !.isClone = TRUE, !.fitted = FALSE, !.state = 0]
                     ELSE h[i]]]

Call(m, id, x, a) == [m |-> m, est |-> id, x |-> x, arg |-> a]

\* ----------------------------------------------------- table operations
\* X[colname] = v : overwrite the column, or append a new one if absent
SetColumn(X, colname, v) ==
    IF colname \in Range(X.columns)
    THEN [X EXCEPT !.data[colname] = v]
    ELSE [X EXCEPT !.columns = Append(X.columns, colname),
                   !.data = [c \in DOMAIN X.data \cup {colname} |->
                                IF c = colname THEN v ELSE X.data[c]]]
\* (mutant) no copy is made: the caller's table object is worked on
copy_alias(frames, ref) == [frames |-> frames, ref |-> ref]

\* X.copy(): a new table object, equal to X; returns the store and the new reference
copy(frames, ref) == [frames |-> [frames EXCEPT !["copy"] = frames[ref]], ref |-> "copy"]
\* pd.Series.to_frame()
to_frame(z) == [z EXCEPT !.kind = "frame"]
\* check_series(X): validation only, hands back its argument
check_series(X) == X

\* (mutant) the error names every wanted column, not the absent ones
_check_columns_wanted(z, selected_columns) ==
    LET z_wanted_keys == Range(selected_columns)
        z_new_keys == Range(z.columns)
    IN  [raised |-> z_wanted_keys \ z_new_keys # {}, missing |-> z_wanted_keys]

\* _check_columns(z, selected_columns)
_check_columns(z, selected_columns) ==
    LET z_wanted_keys == Range(selected_columns)
        z_new_keys == Range(z.columns)
        difference == z_wanted_keys \ z_new_keys
    IN  [raised |-> difference # {}, missing |-> difference]

\* one call's record; ret is the returned table, arg_after the caller's table
\* object as it is when the call returns
\* object as it is when the call returns; parts are the cells of the table the
\* router returns, left to right (its column labels may repeat)
Outcome(op, status, X, y, missing, ret, arg_after) ==
    [op |-> op, status |-> status, X |-> X, y |-> y, missing |-> missing,
     ret |-> ret, arg_after |-> arg_after, parts |-> <<>>]
\* no call is in progress or awaiting its caller
NoCall == Outcome("none", "ok", NoData, 0, {}, NoData, NoData)

\* ------------------------------------------------ ColumnwiseTransformer
\* the guard of the `raise ValueError("Columns need to be a list of strings
\* or None.")` in _fit, with Python's precedence: (not isinstance) and all(...)
ColumnsRejected(cols) ==
    /\ ~cols.isNone
    /\ (~cols.isList) /\ (\A i \in DOMAIN cols.elems : cols.elems[i] \in StrNames)

\* the estimators still referenced once a fit has rebuilt transformers_
Live(h, keep) == [i \in keep |-> h[i]]
Templates == {i \in DOMAIN heap : ~heap[i].isClone}

\* the elements of a set in some fixed order
RECURSIVE SetOrder(_)
SetOrder(S) ==
    IF S = {} THEN <<>>
    ELSE LET c == CHOOSE c \in S : TRUE IN <<c>> \o SetOrder(S \ {c})
\* (mutant) with columns=None the columns are taken as a set, their order lost
ResolveColumns_unordered(cols, X) ==
    IF cols.isNone THEN SetOrder(Range(X.columns)) ELSE cols.elems

\* self.columns_ = self.columns, or X.columns if that is None
ResolveColumns(cols, X) == IF cols.isNone THEN X.columns ELSE cols.elems

\* (mutant) the dict of the previous fit is kept and added to
KeepTransformers == transformers_

\* self.transformers_ = {}
ResetTransformers == [c \in {} |-> 0]

\* (mutant) the template itself, not a clone of it, is stored and fitted
FitOne_shared(colname, X, y, st) ==
    LET tr == [c \in DOMAIN st.transformers_ \cup {colname} |->
                  IF c = colname THEN transformer ELSE st.transformers_[c]]
    IN  [heap |-> [st.heap EXCEPT ![tr[colname]] = EstFit(@, X.data[colname], ArgY(y))],
         transformers_ |-> tr,
         calls |-> Append(st.calls, Call("fit", tr[colname], X.data[colname], ArgY(y)))]

\* (mutant) the dict is created anew in every pass of the loop
FitOne_new_dict(colname, X, y, st) ==
    LET transformer_ == clone(st.heap, transformer)
        tr == [c \in {colname} |-> transformer_.id]
    IN  [heap |-> [transformer_.heap EXCEPT
                      ![tr[colname]] = EstFit(@, X.data[colname], ArgY(y))],
         transformers_ |-> tr,
         calls |-> Append(st.calls, Call("fit", tr[colname], X.data[colname], ArgY(y)))]

\* one pass of the loop of _fit: clone the template, store the clone under
\* the column's label, fit it on X[colname] and y
FitOne(colname, X, y, st) ==
    LET transformer_ == clone(st.heap, transformer)
        tr == [c \in DOMAIN st.transformers_ \cup {colname} |->
                  IF c = colname THEN transformer_.id ELSE st.transformers_[c]]
    IN  [heap |-> [transformer_.heap EXCEPT
                      ![tr[colname]] = EstFit(@, X.data[colname], ArgY(y))],
         transformers_ |-> tr,
         calls |-> Append(st.calls, Call("fit", tr[colname], X.data[colname], ArgY(y)))]

RECURSIVE FitColumns(_, _, _, _)
FitColumns(cols, X, y, st) ==
    IF cols = <<>> THEN st
    ELSE FitColumns(Tail(cols), X, y, FitOne(Head(cols), X, y, st))

\* ColumnwiseTransformer._fit(X, y)
_fit(X, y) ==
    /\ cls = "ColumnwiseTransformer"
    /\ IF ColumnsRejected(columns)
       THEN /\ last' = Outcome("_fit", "ConfigurationError", X, y, {}, NoData, X)
            /\ calls' = <<>>
            /\ UNCHANGED <<heap, columns_, transformers_, fitted>>
       ELSE LET resolved == ResolveColumns(columns, X)
                chk == _check_columns(X, resolved)
            IN  /\ columns_' = resolved
                /\ IF chk.raised
                   THEN /\ last' = Outcome("_fit", "MissingColumns", X, y, chk.missing, NoData, X)
                        /\ calls' = <<>>
                        /\ UNCHANGED <<heap, transformers_, fitted>>
                   ELSE /\ LET st == FitColumns(resolved, X, y,
                                        [heap |-> heap, transformers_ |-> ResetTransformers,
                                         calls |-> <<>>])
                           IN  /\ heap' = Live(st.heap, Templates \cup Range(st.transformers_))
                               /\ transformers_' = st.transformers_
                               /\ calls' = st.calls
                        /\ fitted' = TRUE
                        /\ last' = Outcome("_fit", "ok", X, y, {}, SelfRef, X)
    /\ UNCHANGED <<config, ensemble>>

\* one pass of the loop of _transform / _inverse_transform, on the table
\* object ref: X[colname] = self.transformers_[colname].<method>(X[colname], y)
ApplyOne(method, colname, ref, y, st) ==
    LET X == st.frames[ref]
        e == heap[transformers_[colname]]
        v == IF method = "transform"
             THEN EstTransform(e, X.data[colname], ArgY(y))
             ELSE EstInverse(e, X.data[colname], ArgY(y))
    IN  [frames |-> [st.frames EXCEPT ![ref] = SetColumn(X, colname, v)],
         calls |-> Append(st.calls,
                     Call(method, transformers_[colname], X.data[colname], ArgY(y)))]

RECURSIVE ApplyColumns(_, _, _, _, _)
ApplyColumns(method, cols, ref, y, st) ==
    IF cols = <<>> THEN st
    ELSE ApplyColumns(method, Tail(cols), ref, y, ApplyOne(method, Head(cols), ref, y, st))

\* the common body of _transform and _inverse_transform: copy, check, loop
Apply(op, method, X, y) ==
    LET c == copy([arg |-> X, copy |-> NoData], "arg")
        chk == _check_columns(c.frames[c.ref], columns_)
    IN  IF chk.raised
        THEN /\ last' = Outcome(op, "MissingColumns", X, y, chk.missing, NoData, c.frames["arg"])
             /\ calls' = <<>>
        ELSE LET st == ApplyColumns(method, columns_, c.ref, y,
                            [frames |-> c.frames, calls |-> <<>>])
             IN  /\ last' = Outcome(op, "ok", X, y, {}, st.frames[c.ref], st.frames["arg"])
                 /\ calls' = st.calls

\* ColumnwiseTransformer._transform(X, y)
_transform(X, y) ==
    /\ cls = "ColumnwiseTransformer"
    /\ fitted
    /\ Apply("_transform", "transform", X, y)
    /\ UNCHANGED <<config, ensemble, heap, columns_, transformers_, fitted>>

\* ColumnwiseTransformer._inverse_transform(X, y)
_inverse_transform(X, y) ==
    /\ cls = "ColumnwiseTransformer"
    /\ fitted
    /\ Apply("_inverse_transform", "inverse_transform", X, y)
    /\ UNCHANGED <<config, ensemble, heap, columns_, transformers_, fitted>>

\* (mutant) update is a plain method, there whatever the template has
always_has_method == TRUE

\* @if_delegate_has_method(delegate="transformer"): the attribute `update`
\* exists on the object only if the template has one
if_delegate_has_method == heap[transformer].hasUpdate

\* (mutant) the clone's update gets the column's series as second argument too
UpdateOne_slice(colname, z, X, st) ==
    LET id == transformers_[colname]
        slice == [kind |-> "series", columns |-> <<colname>>, index |-> z.index,
                  data |-> [c \in {colname} |-> z.data[colname]]]
    IN  [heap |-> [st.heap EXCEPT ![id] = EstUpdate(@, z.data[colname], ArgData(slice))],
         calls |-> Append(st.calls, Call("update", id, z.data[colname], ArgData(slice)))]

\* one pass of the loop of update: self.transformers_[colname].update(z[colname], X)
UpdateOne(colname, z, X, st) ==
    LET id == transformers_[colname]
    IN  [heap |-> [st.heap EXCEPT ![id] = EstUpdate(@, z.data[colname], ArgData(X))],
         calls |-> Append(st.calls, Call("update", id, z.data[colname], ArgData(X)))]

RECURSIVE UpdateColumns(_, _, _, _)
UpdateColumns(cols, z, X, st) ==
    IF cols = <<>> THEN st
    ELSE UpdateColumns(Tail(cols), z, X, UpdateOne(Head(cols), z, X, st))

\* z = check_series(X); a pd.Series becomes a one-column frame
Normalize(X) ==
    LET z == check_series(X)
    IN  IF z.kind = "series" THEN to_frame(z) ELSE z

\* ColumnwiseTransformer.update(X, y, update_params)
update(X, y) ==
    /\ cls = "ColumnwiseTransformer"
    /\ IF ~if_delegate_has_method
       THEN \* looking the attribute up fails: there is nothing to call
            /\ last' = Outcome("update", "absent", X, y, {}, NoData, X)
            /\ calls' = <<>>
            /\ UNCHANGED heap
       ELSE /\ fitted
            /\ LET z == Normalize(X)
                   chk == _check_columns(z, columns_)
               IN  IF chk.raised
                   THEN /\ last' = Outcome("update", "MissingColumns", X, y, chk.missing, NoData, X)
                        /\ calls' = <<>>
                        /\ UNCHANGED heap
                   ELSE IF columns_ # <<>> /\ ~heap[transformers_[Head(columns_)]].hasUpdate
                   THEN \* the clone has no update: the first call of the loop raises
                        /\ last' = Outcome("update", "AttributeError", X, y, {}, NoData, X)
                        /\ calls' = <<>>
                        /\ UNCHANGED heap
                   ELSE LET st == UpdateColumns(columns_, z, X, [heap |-> heap, calls |-> <<>>])
                        IN  /\ heap' = st.heap
                            /\ calls' = st.calls
                            /\ last' = Outcome("update", "ok", X, y, {}, SelfRef, X)
    /\ UNCHANGED <<config, ensemble, columns_, transformers_, fitted>>

\* -------------------------------------------- ColumnEnsembleTransformer
\* the selectors of the groups: lists of string column labels
Selectors == {s \in SeqsUpTo(StrNames, MaxCols) : s # <<>> /\ Distinct(s)}
\* the `transformers` constructor argument: one named group on any selector,
\* or two named groups on one column each (the same column, or two); the
\* first group is on template 0, the second on template 1
GroupLists ==
    {<<[name |-> "t1", est |-> 0, index |-> s1]>> : s1 \in Selectors} \cup
    {<<[name |-> "t1", est |-> 0, index |-> <<c1>>],
       [name |-> "t2", est |-> 1, index |-> <<c2>>]>> : c1 \in StrNames, c2 \in StrNames}

\* _check_transformers(y) for a list of groups: hands back self.transformers
_check_transformers == transformers
\* _coerce_to_pd_index(index) for a list of labels: the labels as a pd.Index
_coerce_to_pd_index(index) == index
\* X.loc[:, pd_index]: the sub-table of the selected columns; KeyError if one is absent
loc(X, pd_index) ==
    [found |-> Range(pd_index) \subseteq Range(X.columns),
     frame |-> [X EXCEPT !.columns = pd_index,
                         !.data = [c \in Range(pd_index) \cap DOMAIN X.data |-> X.data[c]]]]
\* position of a label in a list of labels, 0 if it is not there
PositionIn(cols, c) ==
    IF c \in Range(cols) THEN CHOOSE i \in DOMAIN cols : cols[i] = c ELSE 0
\* _get_indices(_Xcolumns, keys): each group's selector as positions in the
\* column list recorded at fit time
_get_indices(Xcolumns, keys) ==
    [g \in DOMAIN keys |-> [k \in DOMAIN keys[g] |-> PositionIn(Xcolumns, keys[g][k])]]

\* the stand-in transformer on a table: fitted on the table's digest,
\* transforming each column
FrameDigest(X) == SumOver(X.data, DOMAIN X.data) % Modulus
TransformFrame(e, X, y) ==
    [i \in DOMAIN X.columns |->
        [src |-> e, col |-> X.columns[i],
         v |-> EstTransform(heap[e], X.data[X.columns[i]], ArgY(y))]]

\* the loop of ColumnEnsembleTransformer._fit; stops at the first KeyError
RECURSIVE FitGroups(_, _, _, _)
FitGroups(groups, X, y, st) ==
    IF groups = <<>> \/ st.status # "ok" THEN st
    ELSE LET g == Head(groups)
             transformer_ == clone(st.heap, g.est)
             id == transformer_.id
             h1 == transformer_.heap
             pd_index == _coerce_to_pd_index(g.index)
             sub == loc(X, pd_index)
         IN  IF ~sub.found
             THEN [st EXCEPT !.heap = h1, !.status = "KeyError",
                             !.missing = Range(pd_index) \ Range(X.columns)]
             ELSE FitGroups(Tail(groups), X, y,
                     [st EXCEPT
                        !.heap = [h1 EXCEPT ![id] = EstFit(@, FrameDigest(sub.frame), ArgY(y))],
                        !.fittedList = Append(@, [name |-> g.name, est |-> id, index |-> g.index]),
                        !.calls = Append(@, Call("fit", id, FrameDigest(sub.frame), ArgY(y)))])

\* ColumnEnsembleTransformer._fit(X, y)
ColumnEnsembleTransformer_fit(X, y) ==
    /\ cls = "ColumnEnsembleTransformer"
    /\ LET st == FitGroups(_check_transformers, X, y,
                    [heap |-> heap, fittedList |-> <<>>, calls |-> <<>>,
                     status |-> "ok", missing |-> {}])
       IN  /\ ensemble_transformers_' = st.fittedList
           /\ _Xcolumns' = X.columns
           /\ heap' = Live(st.heap, Templates \cup {st.fittedList[i].est : i \in DOMAIN st.fittedList})
           /\ calls' = st.calls
           /\ fitted' = (fitted \/ st.status = "ok")
           /\ last' = Outcome("_fit", st.status, X, y, st.missing,
                              IF st.status = "ok" THEN SelfRef ELSE NoData, X)
    /\ UNCHANGED <<config, columns_, transformers_>>

\* the loop of ColumnEnsembleTransformer._transform: Xts, in the order of transformers_
RECURSIVE TransformGroups(_, _, _, _)
TransformGroups(fittedList, X, y, st) ==
    IF fittedList = <<>> \/ st.status # "ok" THEN st
    ELSE LET g == Head(fittedList)
             pd_index == _coerce_to_pd_index(g.index)
             sub == loc(X, pd_index)
         IN  IF ~sub.found
             THEN [st EXCEPT !.status = "KeyError",
                             !.missing = Range(pd_index) \ Range(X.columns)]
             ELSE TransformGroups(Tail(fittedList), X, y,
                     [st EXCEPT
                        !.Xts = Append(@, TransformFrame(g.est, sub.frame, y)),
                        !.keys = Append(@, g.index),
                        !.calls = Append(@, Call("transform", g.est, FrameDigest(sub.frame), ArgY(y)))])

\* pd.concat(Xts, axis=1): the tables side by side, in list order
RECURSIVE concat(_)
concat(Xts) == IF Xts = <<>> THEN <<>> ELSE Head(Xts) \o concat(Tail(Xts))

\* ColumnEnsembleTransformer._transform(X, y); the keys it recomputes with
\* _get_indices are not passed to pd.concat
ColumnEnsembleTransformer_transform(X, y) ==
    /\ cls = "ColumnEnsembleTransformer"
    /\ fitted
    /\ ensemble_transformers_ # <<>>
    /\ LET st == TransformGroups(ensemble_transformers_, X, y,
                    [Xts |-> <<>>, keys |-> <<>>, calls |-> <<>>,
                     status |-> "ok", missing |-> {}])
           Xt == concat(st.Xts)
       IN  /\ calls' = st.calls
           /\ last' = [Outcome("_transform", st.status, X, y, st.missing, NoData, X)
                          EXCEPT !.parts = IF st.status = "ok" THEN Xt ELSE <<>>]
    /\ UNCHANGED <<config, ensemble, heap, columns_, transformers_, fitted>>

\* ColumnEnsembleTransformer.__init__(transformers) with a list of groups
InitColumnEnsemble ==
    /\ cls = "ColumnEnsembleTransformer"
    /\ heap = [i \in {0, 1} |-> [param |-> 1 - i, hasUpdate |-> TRUE, isClone |-> FALSE,
                                 fitted |-> FALSE, state |-> 0]]
    /\ transformers \in GroupLists
    /\ transformer = 0
    /\ columns = NoneColumns

\* ColumnwiseTransformer.__init__(transformer, columns)
InitColumnwise ==
    /\ cls = "ColumnwiseTransformer"
    /\ columns \in ColumnsParams
    /\ \E u \in BOOLEAN :
          \* a template without update is paired with columns=None
          /\ (~u) => columns = NoneColumns
          /\ heap = [i \in {0} |-> [param |-> 1, hasUpdate |-> u, isClone |-> FALSE,
                                    fitted |-> FALSE, state |-> 0]]
    /\ transformer = 0
    /\ transformers = <<>>

Init ==
    /\ InitColumnwise \/ InitColumnEnsemble
    /\ columns_ = <<>>
    /\ transformers_ = [c \in {} |-> 0]
    /\ fitted = FALSE
    /\ ensemble_transformers_ = <<>>
    /\ _Xcolumns = <<>>
    /\ last = NoCall
    /\ calls = <<>>

\* the caller takes the result of the last call (or catches its exception);
\* the next call starts after that
Return ==
    /\ last # NoCall
    /\ last' = NoCall
    /\ calls' = <<>>
    /\ UNCHANGED <<config, ensemble, heap, columns_, transformers_, fitted>>

\* a method of the constructed object is called once the previous call has returned
Ready(c) == cls = c /\ last = NoCall

Call_fit ==
    Ready("ColumnwiseTransformer") /\ \E X \in Frames, y \in Values : _fit(X, y)
Call_transform ==
    Ready("ColumnwiseTransformer") /\ \E X \in Frames, y \in Values : _transform(X, y)
Call_inverse_transform ==
    Ready("ColumnwiseTransformer") /\ \E X \in Frames, y \in Values : _inverse_transform(X, y)
Call_update ==
    Ready("ColumnwiseTransformer")
        /\ \E X \in Frames \cup SeriesInputs, y \in Values : update(X, y)
Call_ensemble_fit ==
    Ready("ColumnEnsembleTransformer")
        /\ \E X \in Frames, y \in Values : ColumnEnsembleTransformer_fit(X, y)
Call_ensemble_transform ==
    Ready("ColumnEnsembleTransformer")
        /\ \E X \in Frames, y \in Values : ColumnEnsembleTransformer_transform(X, y)

Next ==
    \/ Call_fit
    \/ Call_transform
    \/ Call_inverse_transform
    \/ Call_update
    \/ Call_ensemble_fit
    \/ Call_ensemble_transform
    \/ Return

Spec == Init /\ [][Next]_vars

\* ================================================================ claims
Broadcaster == cls = "ColumnwiseTransformer"
Router == cls = "ColumnEnsembleTransformer"
Occurrences(c, cols) == Cardinality({i \in DOMAIN cols : cols[i] = c})

\* e.transform applied n times in a row, each time to the previous result
RECURSIVE TransformTimes(_, _, _, _)
TransformTimes(e, x, a, n) ==
    IF n = 0 THEN x ELSE TransformTimes(e, EstTransform(e, x, a), a, n - 1)
\* e.update applied n times in a row with the same arguments
RECURSIVE UpdateTimes(_, _, _, _)
UpdateTimes(e, x, a, n) ==
    IF n = 0 THEN e ELSE UpdateTimes(EstUpdate(e, x, a), x, a, n - 1)

TransformReturned == Broadcaster /\ last.op = "_transform" /\ last.status = "ok"

\* C1 as it is written: _transform leaves the caller's table as it was; the
\* returned table has the input's columns and row index; a column outside
\* columns_ keeps its values and a column c of columns_ holds
\* transformers_[c].transform(X[c], y).
C1_EachTargetTransformedOnce ==
    TransformReturned =>
        /\ last.arg_after = last.X
        /\ last.ret.kind = "frame"
        /\ last.ret.columns = last.X.columns
        /\ last.ret.index = last.X.index
        /\ DOMAIN last.ret.data = DOMAIN last.X.data
        /\ \A c \in Range(last.X.columns) :
              last.ret.data[c] =
                  IF c \in Range(columns_)
                  THEN EstTransform(heap[transformers_[c]], last.X.data[c], ArgY(last.y))
                  ELSE last.X.data[c]

\* C1, amended: as above, but a column c of columns_ holds the result of
\* applying transformers_[c].transform (with y) once for every occurrence of c
\* in columns_, each application on the previous one's output; that is a single
\* application when c is listed once.
C1_TransformOnCopy ==
    TransformReturned =>
        /\ last.arg_after = last.X
        /\ last.ret.kind = "frame"
        /\ last.ret.columns = last.X.columns
        /\ last.ret.index = last.X.index
        /\ DOMAIN last.ret.data = DOMAIN last.X.data
        /\ \A c \in Range(last.X.columns) :
              last.ret.data[c] =
                  IF c \in Range(columns_)
                  THEN TransformTimes(heap[transformers_[c]], last.X.data[c],
                                      ArgY(last.y), Occurrences(c, columns_))
                  ELSE last.X.data[c]

\* a transform of a table that has a target column whose values change and a
\* column that is no target
C1_Witness ==
    /\ TransformReturned
    /\ Range(last.X.columns) \ Range(columns_) # {}
    /\ \E c \in Range(columns_) : last.ret.data[c] # last.X.data[c]

\* C2 as it is written: in the table the router's _transform returns, the
\* group outputs are in the order of the index list recomputed from the
\* fit-time column list _Xcolumns, whatever the order in which the groups are
\* listed: a group whose columns all come before another group's columns in
\* _Xcolumns has its output to the left of that group's output.
C2_OutputInFitColumnOrder ==
    (Router /\ last.op = "_transform" /\ last.status = "ok") =>
        LET fittedList == ensemble_transformers_
            keys == _get_indices(_Xcolumns, [g \in DOMAIN fittedList |-> fittedList[g].index])
            Known(g) == \A k \in DOMAIN keys[g] : keys[g][k] > 0
            Before(g, h) == \A k \in DOMAIN keys[g], l \in DOMAIN keys[h] : keys[g][k] < keys[h][l]
            Leftmost(g) == CHOOSE i \in DOMAIN last.parts :
                              /\ last.parts[i].src = fittedList[g].est
                              /\ \A j \in 1..(i - 1) : last.parts[j].src # fittedList[g].est
        IN  \A g, h \in DOMAIN fittedList :
                (Known(g) /\ Known(h) /\ Before(g, h)) => Leftmost(g) < Leftmost(h)

BroadcasterOps == {"_fit", "_transform", "_inverse_transform", "update"}

\* C3: a call of _fit (past its check of the columns argument), _transform,
\* _inverse_transform or update (when the attribute exists) raises the
\* missing-columns error exactly when a column of columns_ is absent from the
\* input table; the error names the set columns_ minus the table's columns; and
\* the failing call makes no call on any clone and leaves every estimator and
\* transformers_ as they were.
C3_MissingColumns ==
    [][(Broadcaster /\ last'.op \in BroadcasterOps
            /\ last'.status \notin {"ConfigurationError", "absent"}) =>
        LET absent == Range(columns_') \ Range(last'.X.columns)
        IN  IF absent # {}
            THEN /\ last'.status = "MissingColumns"
                 /\ last'.missing = absent
                 /\ last'.ret = NoData
                 /\ calls' = <<>>
                 /\ heap' = heap
                 /\ transformers_' = transformers_
            ELSE last'.status # "MissingColumns"]_vars

\* a transform of a fitted broadcaster that fails because some, not all, of
\* its target columns are absent
C3_Witness ==
    /\ Broadcaster /\ fitted
    /\ last.op = "_transform" /\ last.status = "MissingColumns"
    /\ last.missing # {} /\ last.missing # Range(columns_)

\* C4 as it is written: _fit with a columns argument that is not None raises
\* the configuration error unless the argument is a list and all its elements
\* are strings, and then clones and fits nothing.
C4_ConfigurationError ==
    (Broadcaster /\ last.op = "_fit" /\ ~columns.isNone
        /\ ~(columns.isList /\ \A i \in DOMAIN columns.elems : columns.elems[i] \in StrNames))
    => (last.status = "ConfigurationError" /\ calls = <<>>)

\* C5: the template is never fitted and never changes; after a successful
\* _fit every column of transformers_ has a clone that is not the template and
\* no two columns share one; a fit sets each column's clone from that column
\* alone, and an update changes each column's clone by that column alone.
C5_DistinctClones ==
    [][Broadcaster =>
        /\ heap'[transformer] = heap[transformer]
        /\ ~heap'[transformer].fitted
        /\ fitted' =>
              \A c \in DOMAIN transformers_' :
                  /\ transformers_'[c] # transformer
                  /\ heap'[transformers_'[c]].isClone
                  /\ \A d \in DOMAIN transformers_' :
                        d # c => transformers_'[d] # transformers_'[c]
        /\ (last'.op = "_fit" /\ last'.status = "ok") =>
              \A c \in DOMAIN transformers_' :
                  heap'[transformers_'[c]] =
                      EstFit([heap[transformer] EXCEPT !.isClone = TRUE],
                             last'.X.data[c], ArgY(last'.y))
        /\ (last'.op = "update" /\ last'.status = "ok") =>
              \A c \in DOMAIN transformers_ :
                  heap'[transformers_[c]] =
                      UpdateTimes(heap[transformers_[c]], last'.X.data[c],
                                  ArgData(last'.X), Occurrences(c, columns_))]_vars

\* an update of a broadcaster with two target columns after which the two
\* clones differ in their fitted state
C5_Witness ==
    /\ Broadcaster /\ fitted
    /\ last.op = "update" /\ last.status = "ok"
    /\ \E c, d \in DOMAIN transformers_ :
          c # d /\ heap[transformers_[c]].state # heap[transformers_[d]].state

\* C6: a successful _fit of a broadcaster built with columns=None sets columns_
\* to the input's columns in the input's order, one built with an explicit
\* columns argument sets columns_ to that argument; no call changes the
\* constructor parameter columns.
C6_ResolvedColumns ==
    [][/\ columns' = columns
       /\ (Broadcaster /\ last'.op = "_fit" /\ last'.status = "ok") =>
             /\ columns.isNone => columns_' = last'.X.columns
             /\ ~columns.isNone => columns_' = columns.elems]_vars

\* a fit with columns=None on a table whose columns are b, a in that order
C6_Witness ==
    /\ Broadcaster /\ columns.isNone
    /\ last.op = "_fit" /\ last.status = "ok"
    /\ last.X.columns = <<"b", "a">> /\ columns_ = <<"b", "a">>

\* C7: on a broadcaster whose template has no update, asking for update finds
\* no such attribute: nothing is called and no fitted state changes; on one
\* whose template has update, the attribute is there.
C7_UpdateExposure ==
    [][(Broadcaster /\ last'.op = "update") =>
        IF heap[transformer].hasUpdate
        THEN last'.status # "absent"
        ELSE /\ last'.status = "absent"
             /\ calls' = <<>>
             /\ UNCHANGED <<heap, columns_, transformers_, fitted>>]_vars

\* update asked of a fitted broadcaster whose template has no update
C7_Witness ==
    /\ Broadcaster /\ fitted /\ ~heap[transformer].hasUpdate
    /\ columns_ # <<>>
    /\ last.op = "update" /\ last.status = "absent"

UpdateReturned == Broadcaster /\ last.op = "update" /\ last.status = "ok"

\* C9 as it is written: an update with all target columns present calls
\* update on each target column's clone exactly once.
C9_EachCloneUpdatedOnce ==
    UpdateReturned =>
        \A c \in Range(columns_) :
            Cardinality({i \in DOMAIN calls : calls[i].est = transformers_[c]}) = 1

\* C9, amended: an update with all target columns present makes one update
\* call for every entry of columns_, in the order of columns_ (so a clone whose
\* column is listed k times is updated k times), each with that column's series
\* of the normalized table first and the input X as it was passed second; it
\* leaves columns_ and transformers_ as they were and returns self.
C9_UpdateCalls ==
    [][(Broadcaster /\ last'.op = "update" /\ last'.status = "ok") =>
        /\ calls' = [i \in DOMAIN columns_ |->
                        Call("update", transformers_[columns_[i]],
                             to_frame(last'.X).data[columns_[i]], ArgData(last'.X))]
        /\ columns_' = columns_
        /\ transformers_' = transformers_
        /\ last'.ret = SelfRef]_vars

\* an update with a bare series of a broadcaster that has one target column
C9_Witness ==
    /\ UpdateReturned
    /\ last.X.kind = "series"
    /\ Len(calls) = 1 /\ calls[1].arg.X.kind = "series"

\* C10: once a _fit has succeeded, after every call, failed ones included,
\* transformers_ has exactly the columns of columns_, each with a fitted clone;
\* a re-fit that fails its missing-columns check leaves columns_,
\* transformers_ and the clones as they were.
C10_KeysAreColumns ==
    [][Broadcaster =>
        /\ fitted' =>
              /\ DOMAIN transformers_' = Range(columns_')
              /\ \A c \in Range(columns_') :
                    /\ transformers_'[c] \in DOMAIN heap'
                    /\ heap'[transformers_'[c]].fitted
        /\ (fitted /\ last'.op = "_fit" /\ last'.status = "MissingColumns") =>
              /\ columns_' = columns_
              /\ transformers_' = transformers_
              /\ heap' = heap]_vars

\* a re-fit of a fitted broadcaster that fails its missing-columns check
C10_Witness ==
    /\ Broadcaster /\ fitted
    /\ last.op = "_fit" /\ last.status = "MissingColumns"
====
